---------------------------- MODULE Spec2Model ----------------------------
(***************************************************************************)
(* Transaction synchronisation of the multisig wallet client:              *)
(* TransactionsProvider (src/app/contexts/TransactionsContext.tsx) and the *)
(* owner form's validation and submit path                                 *)
(* (src/app/components/OwnerModal.tsx).                                    *)
(*                                                                         *)
(* One action of the model is one browser event (router ready, navigation, *)
(* connection change, a network read settling, a Submission log, a caller  *)
(* invoking a context function) followed by the render it causes and every *)
(* effect of that render.  React flushes the effects of a render before it *)
(* handles the next event, so no other event can fall in between.          *)
(*                                                                         *)
(* Library behaviour the provider relies on:                               *)
(*  - useSWR returns the cached data of the CURRENT key (undefined for the *)
(*    null key), starts a read when the key changes, stores a settled read *)
(*    under the key the read was issued for, and ignores the response of a *)
(*    read that a later read of the same key has superseded;               *)
(*  - the bound mutate(undefined, true) starts a fresh read of the current *)
(*    key and leaves the cache as it is until that read settles;           *)
(*  - useWeb3React yields one library per connected chain and none while   *)
(*    disconnected; a connection error leaves chainId undefined.           *)
(***************************************************************************)
EXTENDS Integers, Sequences, FiniteSets

\* ------------------------------------------------------------------ bounds
\* Largest transaction count a network read returns (one more while the
\* gateway is in use, see GatewayCounts).
MaxCount == 2

\* Largest length of the local list the model explores.
MaxLen == 3

\* ------------------------------------------------------------- value sets
\* query.address values: two deployed wallets and one value isAddress
\* rejects (it also stands for the undefined query of a router not ready).
ValidAddrs == {"w1", "w2"}

BadAddr == "bad"

Addrs == ValidAddrs \cup {BadAddr}

\* contract === null
NoContract == "null"

\* the null SWR key
NoKey == "nokey"

\* chainId === undefined
NoChain == 0

\* connector.supportedChainIds
SupportedChainIds == {1, 2}

\* a chain the wallet can be on that the connector does not list
UnsupportedChainIds == {3}

ChainIds == SupportedChainIds \cup UnsupportedChainIds

\* transactionCount === undefined
Undef == -1

Counts == 0..MaxCount

\* an optional field of Transaction that is not set
Absent == "absent"

\* ----------------------------------------------------------- Transaction
\* The placeholder object literal { id, address } of the count effect.
Placeholder(id, addr) ==
    [id |-> id, address |-> addr, data |-> Absent,
     confirmations |-> Absent, status |-> Absent]

\* What callers attach to a placeholder through updateTransactions.
Details ==
    { [data |-> Absent, confirmations |-> Absent, status |-> Absent],
      [data |-> "0x", confirmations |-> {"o1"}, status |-> "pending"] }

Transaction ==
    { [id |-> i, address |-> a, data |-> d.data,
       confirmations |-> d.confirmations, status |-> d.status] :
      i \in 0..MaxLen, a \in ValidAddrs, d \in Details }

\* ------------------------------------------- transactionCount.toString()
RECURSIVE ToString(_)
ToString(n) ==
    IF n < 10 THEN <<n>> ELSE ToString(n \div 10) \o <<n % 10>>

\* parseInt of a string of decimal digits
RECURSIVE ParseInt(_)
ParseInt(s) ==
    IF Len(s) = 0 THEN 0
    ELSE 10 * ParseInt(SubSeq(s, 1, Len(s) - 1)) + s[Len(s)]

\* ------------------------------------------------- the count effect body
MaterializeOffByOne(count, addr) ==
    [i \in 1..ParseInt(ToString(count)) |-> Placeholder(i, addr)]

\* new Array(parseInt(count.toString())).fill(null).map((_, id) => ({id, address}))
Materialize(count, addr) ==
    [i \in 1..ParseInt(ToString(count)) |-> Placeholder(i - 1, addr)]

PrependToBack(txs, addr) ==
    txs \o <<Placeholder(Len(txs), addr)>>

PrependLastIndex(txs, addr) ==
    <<Placeholder(Len(txs) - 1, addr)>> \o txs

PrependAfterHead(txs, addr) ==
    <<Head(txs), Placeholder(Len(txs), addr)>> \o Tail(txs)

\* (txs) => [{ id: txs.length, address }, ...txs]
PrependPlaceholder(txs, addr) ==
    <<Placeholder(Len(txs), addr)>> \o txs

CountEffectRebuild(txs, count, addr) ==
    IF count = Undef THEN txs ELSE Materialize(count, addr)

\* The body of the transactionCount effect, run when transactionCount changed.
CountEffect(txs, count, addr) ==
    IF count = Undef THEN txs
    ELSE IF Len(txs) # 0 THEN PrependPlaceholder(txs, addr)
    ELSE Materialize(count, addr)

UpdateTxsAll(txs, tx) ==
    [i \in 1..Len(txs) |-> tx]

\* txs.map((transaction) => (tx.id === transaction.id ? tx : transaction))
UpdateTxs(txs, tx) ==
    [i \in 1..Len(txs) |-> IF tx.id = txs[i].id THEN tx ELSE txs[i]]

\* ------------------------------------------------- the owner form's text
\* The number of hex digits of an address in this model (40 in ethers).
HexLen == 2

\* The owner sets drawn here hold at most MaxOwners owners.
MaxOwners == 2

LowerHex == {"a", "b"}
UpperHex == {"A", "B"}

\* The characters a user can type here: hex digits in both cases, and one
\* that is no hex digit.
Chars == LowerHex \cup UpperHex \cup {"g"}

\* String.prototype.toUpperCase / toLowerCase on one character
UpperChar(c) == IF c = "a" THEN "A" ELSE IF c = "b" THEN "B" ELSE c

LowerChar(c) == IF c = "A" THEN "a" ELSE IF c = "B" THEN "b" ELSE c

ToUpperCase(s) == [i \in 1..Len(s) |-> UpperChar(s[i])]

ToLowerCase(s) == [i \in 1..Len(s) |-> LowerChar(s[i])]

\* The mixed-case checksum form of an address: which digits are upper case
\* is fixed by the address (here: the first one).
Checksum(s) ==
    [i \in 1..Len(s) |-> IF i = 1 THEN UpperChar(s[i]) ELSE LowerChar(s[i])]

\* ethers' isAddress on text: HexLen hex digits, all lower case, all upper
\* case, or in checksum form.
IsAddressText(s) ==
    /\ Len(s) = HexLen
    /\ \A i \in 1..Len(s) : s[i] \in LowerHex \cup UpperHex
    /\ \/ s = ToLowerCase(s)
       \/ s = ToUpperCase(s)
       \/ s = Checksum(s)

\* What the input of the form can hold: any text of up to HexLen + 1 characters.
CandidateTexts ==
    UNION { [1..n -> Chars] : n \in 0..(HexLen + 1) }

\* Owner addresses as the chain returns them, in checksum form.
OwnerAddrs == { Checksum(s) : s \in [1..HexLen -> LowerHex] }

OwnerSets == { os \in SUBSET OwnerAddrs : Cardinality(os) <= MaxOwners }

NoErrors == <<>>

NewOwnerError(message) == [f \in {"newOwnerAddress"} |-> message]

ValidateCaseSensitive(candidate, os) ==
    IF Len(candidate) # 0 /\ ~IsAddressText(candidate)
    THEN NewOwnerError("Please enter a valid address")
    ELSE IF Len(candidate) # 0 /\ \E owner \in os : owner = candidate
    THEN NewOwnerError("This address is already an owner")
    ELSE NoErrors

\* The Form's validate: the errors object for a candidate and the owners.
Validate(candidate, os) ==
    IF Len(candidate) # 0 /\ ~IsAddressText(candidate)
    THEN NewOwnerError("Please enter a valid address")
    ELSE IF Len(candidate) # 0
            /\ \E owner \in os : ToUpperCase(owner) = ToUpperCase(candidate)
    THEN NewOwnerError("This address is already an owner")
    ELSE NoErrors

\* canSubmit(values, errors): hasValues && !hasErrors
CanSubmit(candidate, errors) ==
    LET hasValues == Len(candidate)
        hasErrors == Cardinality(DOMAIN errors) # 0
    IN  hasValues # 0 /\ ~hasErrors

\* --------------------------------------------------- render-time values
IsAddress(a) == a \in ValidAddrs

\* useWeb3React's library: one instance per connected chain, 0 for undefined
Library(c) == c

CanFetch(r, c) == r /\ c # NoChain

ShouldFetch(r, c, a) ==
    /\ CanFetch(r, c)
    /\ IsAddress(a)
    /\ Library(c) # 0
    /\ c \in SupportedChainIds

\* shouldFetch ? [address, 'transactionCount'] : null
Key(r, c, a) == IF ShouldFetch(r, c, a) THEN a ELSE NoKey

\* data of useSWR for the key of this render
TransactionCount(r, c, a, cch) ==
    IF Key(r, c, a) = NoKey THEN Undef ELSE cch[Key(r, c, a)]

VARIABLES
    isReady,        \* useRouter().isReady
    address,        \* query.address
    chainId,        \* useWeb3React().chainId, NoChain for undefined
    web3Error,      \* useWeb3React().error is set
    contract,       \* the memoized Contract: its address, or NoContract
    transactions,   \* useState<Transaction[]>
    cache,          \* SWR cache: key -> count or Undef
    fetchErr,       \* SWR cache: key -> a read error is held
    requests,       \* reads in flight: key -> chainId the live read was issued under, 0 for none
    listeners,      \* Submission listeners: [lib, filter] registered with library.on
    call,           \* the Action Gateway / owner form call in progress
    owners,         \* useOwners().owners, the wallet's current owner set
    newOwnerAddress \* values.newOwnerAddress of the owner form

vars ==
    <<isReady, address, chainId, web3Error, contract, transactions,
      cache, fetchErr, requests, listeners, call, owners, newOwnerAddress>>

\* ------------------------------------------------ values of this render
library == Library(chainId)

canFetch == CanFetch(isReady, chainId)

shouldFetch == ShouldFetch(isReady, chainId, address)

key == Key(isReady, chainId, address)

transactionCount == TransactionCount(isReady, chainId, address, cache)

isValidating == key # NoKey /\ requests[key] # 0

fetchError == key # NoKey /\ fetchErr[key]

isLoadingDespiteFetchError ==
    ~web3Error /\ (~canFetch \/ (shouldFetch /\ isValidating))

\* !web3Error && !fetchError && (!canFetch || (shouldFetch && isValidating))
isLoading ==
    ~web3Error /\ ~fetchError /\ (~canFetch \/ (shouldFetch /\ isValidating))

IdleCall == [op |-> "none", pc |-> "idle", result |-> "none", cause |-> "none"]

Init ==
    /\ isReady = FALSE
    /\ address = BadAddr
    /\ chainId = NoChain
    /\ web3Error = FALSE
    /\ contract = NoContract
    /\ transactions = <<>>
    /\ cache = [k \in ValidAddrs |-> Undef]
    /\ fetchErr = [k \in ValidAddrs |-> FALSE]
    /\ requests = [k \in ValidAddrs |-> 0]
    /\ listeners = {}
    /\ call = IdleCall
    /\ owners = {}
    /\ newOwnerAddress = <<>>

\* ------------------------------------------------------------ the effects
\* useMemo(() => isReady && isAddress(address) ? new Contract(address, abi) : null, [isReady])
MemoContract ==
    contract' =
        IF isReady' # isReady
        THEN (IF isReady' /\ IsAddress(address') THEN address' ELSE NoContract)
        ELSE contract

\* useSWR on a key change, and the chainId effect's mutate(undefined, true):
\* a read of the new render's key is started under the new chainId; with
\* dedupe, a key change alone joins a read of that key still in flight.
StartReads(dedupe) ==
    LET k == Key(isReady', chainId', address')
        keyChanged == k # key
        chainChanged == chainId' # chainId
    IN  requests' =
            IF k = NoKey THEN requests
            ELSE IF chainChanged THEN [requests EXCEPT ![k] = chainId']
            ELSE IF keyChanged /\ ~(dedupe /\ requests[k] # 0)
                 THEN [requests EXCEPT ![k] = chainId']
            ELSE requests

RunCountEffectEveryRender ==
    LET tc == TransactionCount(isReady', chainId', address', cache')
        txs == CountEffect(transactions, tc, address')
    IN  /\ Len(txs) <= MaxLen
        /\ transactions' = txs

\* useEffect(..., [transactionCount])
RunCountEffect ==
    LET tc == TransactionCount(isReady', chainId', address', cache')
        txs == IF tc # transactionCount
               THEN CountEffect(transactions, tc, address')
               ELSE transactions
    IN  /\ Len(txs) <= MaxLen
        /\ transactions' = txs

RunListenerEffectNoCleanup ==
    LET lib == Library(chainId')
        changed == <<contract', lib>> # <<contract, library>>
    IN  listeners' =
            IF changed /\ contract' # NoContract /\ lib # 0
            THEN listeners \cup {[lib |-> lib, filter |-> contract']}
            ELSE listeners

\* useEffect(..., [contract, library]): the previous run's cleanup, then this run
RunListenerEffect ==
    LET lib == Library(chainId')
        changed == <<contract', lib>> # <<contract, library>>
        cleaned == IF contract # NoContract /\ library # 0
                   THEN {l \in listeners : ~(l.lib = library /\ l.filter = contract)}
                   ELSE listeners
    IN  listeners' =
            IF ~changed THEN listeners
            ELSE IF contract' # NoContract /\ lib # 0
                 THEN cleaned \cup {[lib |-> lib, filter |-> contract']}
            ELSE cleaned

\* The render after an event and all of its effects.
Render(dedupe) ==
    /\ MemoContract
    /\ StartReads(dedupe)
    /\ RunCountEffect
    /\ RunListenerEffect

\* ------------------------------------------------------------- the events
\* The router finishes resolving the query.
RouterReady(a) ==
    /\ ~isReady
    /\ isReady' = TRUE
    /\ address' = a
    /\ UNCHANGED <<chainId, web3Error, cache, fetchErr, call, owners, newOwnerAddress>>
    /\ Render(FALSE)

\* query.address changes (navigation to another wallet).
Navigate(a, dedupe) ==
    /\ isReady
    /\ a # address
    /\ address' = a
    /\ UNCHANGED <<isReady, chainId, web3Error, cache, fetchErr, call, owners, newOwnerAddress>>
    /\ Render(dedupe)

\* The wallet connects, or switches to another chain.
ChainChanged(c) ==
    /\ c # chainId
    /\ chainId' = c
    /\ web3Error' = FALSE
    /\ UNCHANGED <<isReady, address, cache, fetchErr, call, owners, newOwnerAddress>>
    /\ Render(FALSE)

\* The wallet disconnects, or the connection fails with an error.
Deactivate(err) ==
    /\ chainId # NoChain \/ web3Error # err
    /\ chainId' = NoChain
    /\ web3Error' = err
    /\ UNCHANGED <<isReady, address, cache, fetchErr, call, owners, newOwnerAddress>>
    /\ Render(FALSE)

\* A read of key k settles with count n: SWR stores it under k.
FetchResolve(k, n) ==
    /\ requests[k] # 0
    /\ cache' = [cache EXCEPT ![k] = n]
    /\ fetchErr' = [fetchErr EXCEPT ![k] = FALSE]
    /\ requests' = [requests EXCEPT ![k] = 0]
    /\ UNCHANGED <<isReady, address, chainId, web3Error, call, owners, newOwnerAddress>>
    /\ MemoContract
    /\ RunCountEffect
    /\ RunListenerEffect

\* A read of key k fails: SWR keeps the data and holds the error.
FetchReject(k) ==
    /\ requests[k] # 0
    /\ fetchErr' = [fetchErr EXCEPT ![k] = TRUE]
    /\ requests' = [requests EXCEPT ![k] = 0]
    /\ UNCHANGED <<isReady, address, chainId, web3Error, cache, call, owners, newOwnerAddress>>
    /\ MemoContract
    /\ RunCountEffect
    /\ RunListenerEffect

\* library.on(submission, () => mutate(undefined, true))
SubmissionEvent ==
    /\ \E l \in listeners : l.lib = library
    /\ requests' = IF key = NoKey THEN requests
                   ELSE [requests EXCEPT ![key] = chainId]
    /\ UNCHANGED <<isReady, address, chainId, web3Error, cache, fetchErr, call, owners, newOwnerAddress>>
    /\ MemoContract
    /\ RunCountEffect
    /\ RunListenerEffect

\* What the consumers of the context pass to updateTransactions here: an
\* entry they hold, with the details they read from the chain attached.
UpdateInputs ==
    {t \in Transaction :
        /\ t.data # Absent
        /\ \E i \in 1..Len(transactions) :
              transactions[i].id = t.id /\ transactions[i].address = t.address}

\* updateTransactions(tx)
UpdateTransactions(tx) ==
    /\ transactions' = UpdateTxs(transactions, tx)
    /\ UNCHANGED <<isReady, address, chainId, web3Error, contract,
                   cache, fetchErr, requests, listeners, call,
                   owners, newOwnerAddress>>

\* ------------------------------------------------- Transaction Action Gateway
\* The part of the provider's state no gateway function assigns.
SyncVars ==
    <<isReady, address, chainId, web3Error, contract,
      cache, fetchErr, requests, listeners, owners>>

\* sendTx wraps its awaits in try/catch; addNewTx, confirmTx and
\* revokeConfirmation have none.
Caught(op) == op = "sendTx"

\* An await that throws: { [FORM_ERROR]: e.message } where caught, a rejected
\* promise where not.
Failed(op, cause) ==
    [op |-> op, pc |-> "done",
     result |-> IF Caught(op) THEN "error" ELSE "rejected",
     cause |-> cause]

Awaiting(op, pc) ==
    [op |-> op, pc |-> pc, result |-> "none", cause |-> "none"]

\* contract?.connect(library.getSigner())?.<write>(...) up to its first await:
\* a null contract short-circuits to undefined and tx.wait() throws; an
\* undefined library throws in getSigner; otherwise the write call is issued.
IssueWrite(op) ==
    IF contract = NoContract THEN Failed(op, "binding")
    ELSE IF library = 0 THEN Failed(op, "signer")
    ELSE Awaiting(op, "write")

AddNewTxCallUnchecked(methodFound) ==
    /\ call.pc = "idle"
    /\ call' = IssueWrite("addNewTx")
    /\ UNCHANGED <<SyncVars, newOwnerAddress>>

\* addNewTx up to its first await; methodFound: the ABI has a function entry
\* named method (find(...) returns undefined otherwise and .inputs throws).
AddNewTxCall(methodFound) ==
    /\ call.pc = "idle"
    /\ call' = IF ~methodFound THEN Failed("addNewTx", "method")
               ELSE IssueWrite("addNewTx")
    /\ UNCHANGED <<SyncVars, newOwnerAddress>>

AddNewTxOptimistic(methodFound) ==
    /\ AddNewTxCall(methodFound)
    /\ transactions' = PrependPlaceholder(transactions, address)

AddNewTx(methodFound) ==
    /\ AddNewTxCall(methodFound)
    /\ UNCHANGED transactions

\* confirmTx(transactionId) up to its first await
ConfirmTx ==
    /\ call.pc = "idle"
    /\ call' = IssueWrite("confirmTx")
    /\ UNCHANGED <<SyncVars, transactions, newOwnerAddress>>

\* revokeConfirmation(transactionId) up to its first await
RevokeConfirmation ==
    /\ call.pc = "idle"
    /\ call' = IssueWrite("revokeConfirmation")
    /\ UNCHANGED <<SyncVars, transactions, newOwnerAddress>>

\* OwnerModal's sendTx up to its first await: addOwner / replaceOwner on the
\* modal's own Contract (never null), with the signer of library.
SendTx ==
    /\ call.pc = "idle"
    /\ call' = IF library = 0 THEN Failed("sendTx", "signer")
               ELSE Awaiting("sendTx", "write")
    /\ UNCHANGED <<SyncVars, transactions, newOwnerAddress>>

\* The awaited write call settles: a pending transaction handle, or a
\* rejection / revert.
WriteSettles(ok) ==
    /\ call.pc = "write"
    /\ call' = IF ok THEN Awaiting(call.op, "wait")
               ELSE Failed(call.op, "write")
    /\ UNCHANGED <<SyncVars, transactions, newOwnerAddress>>

\* await tx.wait() settles: the receipt is returned, or the wait fails.
\* After its receipt sendTx calls clearModal(): the form is unmounted and
\* opens again with its initial value ''.
ReceiptSettles(ok) ==
    /\ call.pc = "wait"
    /\ call' = IF ok THEN [op |-> call.op, pc |-> "done",
                           result |-> "receipt", cause |-> "none"]
               ELSE Failed(call.op, "receipt")
    /\ newOwnerAddress' = IF ok /\ call.op = "sendTx" THEN <<>>
                          ELSE newOwnerAddress
    /\ UNCHANGED <<SyncVars, transactions>>

\* The caller has taken the settled promise.
Return ==
    /\ call.pc = "done"
    /\ call' = IdleCall
    /\ UNCHANGED <<SyncVars, transactions, newOwnerAddress>>

\* ------------------------------------------------------- the owner form
\* The errors react-final-form holds for the current value.
errors == Validate(newOwnerAddress, owners)

\* The form's submitting flag: onSubmit's promise has not settled.
submitting == call.op = "sendTx" /\ call.pc \in {"write", "wait"}

\* disabled={!canSubmit(values, errors) || submitting}
SubmitDisabled == ~CanSubmit(newOwnerAddress, errors) \/ submitting

\* The owners context delivers the owner set read from the chain.
OwnersLoaded(os) ==
    /\ os # owners
    /\ owners' = os
    /\ UNCHANGED <<isReady, address, chainId, web3Error, contract,
                   transactions, cache, fetchErr, requests, listeners, call,
                   newOwnerAddress>>

\* The user edits the address input.
ChangeCandidate(s) ==
    /\ s # newOwnerAddress
    /\ newOwnerAddress' = s
    /\ UNCHANGED <<isReady, address, chainId, web3Error, contract,
                   transactions, cache, fetchErr, requests, listeners, call,
                   owners>>

\* The user presses the submit button: the form calls onSubmit={sendTx}.
SubmitForm ==
    /\ ~SubmitDisabled
    /\ SendTx

\* ------------------------------------------------------- specifications
\* The Sync Engine: session changes without connection errors, reads that
\* resolve, Submission logs and updateTransactions.  The router resolves to a
\* wallet address (a session opened on an invalid address has no contract, so
\* and a disconnected wallet already covers a session without a key).
Next ==
    \/ \E a \in ValidAddrs : RouterReady(a)
    \/ \E a \in ValidAddrs, d \in BOOLEAN : Navigate(a, d)
    \/ \E c \in SupportedChainIds : ChainChanged(c)
    \/ Deactivate(FALSE)
    \/ \E k \in ValidAddrs, n \in Counts : FetchResolve(k, n)
    \/ SubmissionEvent
    \/ \E tx \in UpdateInputs : UpdateTransactions(tx)

Spec == Init /\ [][Next]_vars

\* The counts a read returns while the gateway is in use: one more than
\* Counts, so that a submission can follow a materialized block of MaxCount.
GatewayCounts == 0..(MaxCount + 1)

\* The Action Gateway and the owner form's submit path, on one wallet, with
\* the connection events, reads and detail updates of the engine around it.
GatewayNext ==
    \/ \E a \in Addrs : RouterReady(a)
    \/ \E c \in ChainIds : ChainChanged(c)
    \/ Deactivate(FALSE)
    \/ \E k \in ValidAddrs, n \in GatewayCounts : FetchResolve(k, n)
    \/ SubmissionEvent
    \/ \E tx \in UpdateInputs : UpdateTransactions(tx)
    \/ \E m \in BOOLEAN : AddNewTx(m)
    \/ ConfirmTx
    \/ RevokeConfirmation
    \/ SendTx
    \/ \E ok \in BOOLEAN : WriteSettles(ok)
    \/ \E ok \in BOOLEAN : ReceiptSettles(ok)
    \/ Return

GatewaySpec == Init /\ [][GatewayNext]_vars

\* The engine with the failures of its environment: router queries that are
\* not addresses, connection errors and failed reads, on the supported chains.
LoadNext ==
    \/ \E a \in Addrs : RouterReady(a)
    \/ \E a \in Addrs, d \in BOOLEAN : Navigate(a, d)
    \/ \E c \in SupportedChainIds : ChainChanged(c)
    \/ \E err \in BOOLEAN : Deactivate(err)
    \/ \E k \in ValidAddrs, n \in Counts : FetchResolve(k, n)
    \/ \E k \in ValidAddrs : FetchReject(k)
    \/ SubmissionEvent

LoadSpec == Init /\ [][LoadNext]_vars

\* The owner form: owner sets, edits of the candidate, the submit button and
\* the write it starts, with the wallet connecting and disconnecting.
OwnerNext ==
    \/ \E os \in OwnerSets : OwnersLoaded(os)
    \/ \E s \in CandidateTexts : ChangeCandidate(s)
    \/ \E c \in SupportedChainIds : ChainChanged(c)
    \/ Deactivate(FALSE)
    \/ SubmitForm
    \/ \E ok \in BOOLEAN : WriteSettles(ok)
    \/ \E ok \in BOOLEAN : ReceiptSettles(ok)
    \/ Return

OwnerSpec == Init /\ [][OwnerNext]_vars

\* ------------------------------------------------------------------ claims
\* The engine is ready: a count is resolved for the current session and no
\* read of it is in flight.
Ready == shouldFetch /\ transactionCount # Undef /\ ~isValidating

\* The session key of a render and the key a read was issued under.
Session == <<address, chainId>>

IsPlaceholderOf(tx, id, addr) ==
    tx = [id |-> id, address |-> addr, data |-> Absent,
          confirmations |-> Absent, status |-> Absent]

\* C1: whenever a read of the current key resolves a count n while the local
\* list is empty, the list becomes exactly n entries with ids 0, 1, ..., n-1
\* in ascending order, each with the current wallet address and with data,
\* confirmations and status absent (n = 0 leaves it empty).
C1_BulkMaterialization ==
    [][\A n \in Counts :
          (key # NoKey /\ transactions = <<>> /\ FetchResolve(key, n))
          => /\ Len(transactions') = n
             /\ \A i \in 1..n :
                   IsPlaceholderOf(transactions'[i], i - 1, address)]_vars

\* C1 has happened: a count of 2 was materialized on an empty list.
C1_Witness ==
    /\ transactionCount = 2
    /\ Len(transactions) = 2
    /\ IsPlaceholderOf(transactions[1], 0, address)
    /\ IsPlaceholderOf(transactions[2], 1, address)

\* C2 as stated: whenever a count resolves while the local list is non-empty,
\* exactly one placeholder with id = the length before the step and the
\* current wallet address is inserted at the front, the held entries kept.
C2_AsStated ==
    [][\A n \in Counts :
          (key # NoKey /\ transactions # <<>> /\ FetchResolve(key, n))
          => /\ Len(transactions') = Len(transactions) + 1
             /\ IsPlaceholderOf(transactions'[1], Len(transactions), address)
             /\ SubSeq(transactions', 2, Len(transactions')) = transactions]_vars

\* C2 amended: whenever a count resolves to a value other than the one held
\* for the current key while the local list is non-empty, exactly one
\* placeholder with id = the length before the step and the current wallet
\* address is inserted at the front and every held entry is kept, in order,
\* however far the count is from the length; a count that resolves to the
\* value already held leaves the list as it is.
C2_ResyncOnChangedCount ==
    [][\A n \in Counts :
          (key # NoKey /\ transactions # <<>> /\ FetchResolve(key, n))
          => IF n # transactionCount
             THEN /\ Len(transactions') = Len(transactions) + 1
                  /\ IsPlaceholderOf(transactions'[1], Len(transactions), address)
                  /\ SubSeq(transactions', 2, Len(transactions')) = transactions
             ELSE transactions' = transactions]_vars

\* C2 has happened: a bulk of two, then a resync placeholder at the front
\* although the count (at most MaxCount) is below the new length.
C2_Witness ==
    /\ Len(transactions) = 3
    /\ transactions[1].id = 2
    /\ transactions[2].id = 0
    /\ transactions[3].id = 1
    /\ transactionCount # Undef
    /\ transactionCount < 3

\* C3: a chainId change in any state empties the local list and leaves the
\* engine loading (isLoading is true).
C3_ChainChangeDiscards ==
    [][chainId' # chainId => (transactions' = <<>> /\ isLoading')]_vars

\* C4: for every tx, updateTransactions(tx) leaves the list as it is when no
\* entry has id tx.id; otherwise it replaces exactly the one entry with that
\* id by tx, keeping every other entry, the length and the order; applying
\* it twice gives what applying it once gives.
C4_UpdateById ==
    \A tx \in Transaction :
        LET once == UpdateTxs(transactions, tx)
            hits == {i \in 1..Len(transactions) : transactions[i].id = tx.id}
        IN  /\ Len(once) = Len(transactions)
            /\ hits = {} => once = transactions
            /\ Cardinality(hits) <= 1
            /\ \A i \in 1..Len(transactions) :
                  once[i] = IF i \in hits THEN tx ELSE transactions[i]
            /\ UpdateTxs(once, tx) = once

\* C4 has happened: one entry of a list of three carries details attached by
\* updateTransactions, the other two are still placeholders.
C4_Witness ==
    /\ Len(transactions) = 3
    /\ Cardinality({i \in 1..3 : transactions[i].data # Absent}) = 1

C6_FailuresAreValues ==
    (call.pc = "done" /\ call.cause \in {"binding", "signer", "write", "receipt"})
    => call.result = "error"

\* C7: in every state reached by a step, every entry of the list carries the
\* wallet address of the session, and a step that changes the session's
\* (walletAddress, chainId) keeps no entry the list held before it.
C7_NoLeakage ==
    [][/\ \A i \in 1..Len(transactions') : transactions'[i].address = address'
       /\ (Session' # Session /\ transactions # <<>>)
          => \A i \in 1..Len(transactions') :
                \A j \in 1..Len(transactions) :
                   transactions'[i] # transactions[j]]_vars

\* C8: the response of a count read issued under a session key other than
\* the current one changes neither the cached counts nor the local list.
C8_StaleDiscarded ==
    [][\A k \in ValidAddrs, n \in Counts :
          (requests[k] # 0 /\ <<k, requests[k]>> # Session /\ FetchResolve(k, n))
          => (cache' = cache /\ transactions' = transactions)]_vars

\* C9: no two entries of the local list have the same id.
C9_UniqueIds ==
    \A i, j \in 1..Len(transactions) :
        i # j => transactions[i].id # transactions[j].id

\* C9's case: a list built by a bulk materialization and a resync across a
\* wallet change, with details attached by updateTransactions.
C9_Witness ==
    /\ Len(transactions) = 3
    /\ \E i, j \in 1..3 : transactions[i].address # transactions[j].address
    /\ \E i \in 1..3 : transactions[i].data # Absent

\* C10: whenever the engine is ready and no submitted call is awaiting
\* confirmation, the list holds exactly one entry for each id in 0..c-1,
\* c the resolved count, and nothing else.
C10_ListMatchesCount ==
    (Ready /\ call.pc = "idle")
    => /\ Len(transactions) = transactionCount
       /\ {transactions[i].id : i \in 1..Len(transactions)}
             = 0..(transactionCount - 1)

\* ------------------------------------------------------- claims C11 - C20
\* The ids of a list, in list order.
Ids(txs) == [i \in 1..Len(txs) |-> txs[i].id]

\* 0, 1, ..., n-1
AscendingIds(n) == [i \in 1..n |-> i - 1]

\* The state the scenario of C11 is in when the revalidation resolves: the
\* list is the block materialized from count n, an addNewTx call has had its
\* write accepted, and the revalidation its Submission event started is in
\* flight.
SubmittedOnBlock(n) ==
    /\ key # NoKey
    /\ transactionCount = n
    /\ transactions = Materialize(n, address)
    /\ call.op = "addNewTx"
    /\ call.pc \in {"wait", "done"}
    /\ call.result \in {"none", "receipt"}
    /\ isValidating

C12_EventRevalidates ==
    ENABLED SubmissionEvent
    => ENABLED (SubmissionEvent /\ isValidating' /\ transactions' = transactions)

\* A count read is permitted for this render and one is in flight.
PermittedReadInFlight ==
    /\ isReady
    /\ chainId \in SupportedChainIds
    /\ address \in ValidAddrs
    /\ requests[address] # 0

\* C13: in every reachable state with a connection error or a read error
\* present isLoading is false, and with no error present isLoading is true
\* exactly when the router or the chainId is not yet resolved or a permitted
\* count read is in flight.
C13_LoadingShortCircuits ==
    /\ (web3Error \/ fetchError) => ~isLoading
    /\ ~(web3Error \/ fetchError)
       => (isLoading <=> (~isReady \/ chainId = NoChain \/ PermittedReadInFlight))

\* C13 has happened: a read error is held while a revalidation of the same
\* key is in flight, and the indicator is off.
C13_Witness ==
    /\ fetchError
    /\ PermittedReadInFlight
    /\ ~web3Error
    /\ ~isLoading

\* Equality of two texts up to the case of their letters.
EqualIgnoringCase(s, t) ==
    /\ Len(s) = Len(t)
    /\ \A i \in 1..Len(s) : LowerChar(s[i]) = LowerChar(t[i])

\* The candidate must be rejected: it is non-empty and is no valid address
\* or names an existing owner up to case.
MustReject(candidate, os) ==
    /\ Len(candidate) # 0
    /\ \/ ~IsAddressText(candidate)
       \/ \E owner \in os : EqualIgnoringCase(owner, candidate)

\* A step in which the owner form's write is started.
OwnerWriteStarts ==
    call.pc = "idle" /\ call'.op = "sendTx" /\ call'.pc # "idle"

\* C14: for every candidate and owner set, a non-empty candidate that is not
\* a valid address or equals an existing owner up to case has a validation
\* error; and no owner write is started while a validation error is present
\* or the candidate is empty.
C14_ValidationBlocksSubmit ==
    [][/\ MustReject(newOwnerAddress', owners') => DOMAIN errors' # {}
       /\ OwnerWriteStarts
          => /\ Len(newOwnerAddress) # 0
             /\ DOMAIN errors = {}
             /\ ~MustReject(newOwnerAddress, owners)]_vars

\* C14 has happened: the candidate is an existing owner written in another
\* case, the form holds the duplicate error and no call is in progress.
C14_Witness ==
    /\ newOwnerAddress \notin owners
    /\ \E owner \in owners : EqualIgnoringCase(owner, newOwnerAddress)
    /\ errors = NewOwnerError("This address is already an owner")
    /\ SubmitDisabled
    /\ library # 0
    /\ call.pc = "idle"

\* C15: in every reachable state at most one Submission listener is
\* registered, and it is the one of the current binding on the current
\* provider: the listener of a replaced binding or provider is gone in the
\* state in which its successor is registered.
C15_SingleListener ==
    /\ Cardinality(listeners) <= 1
    /\ \A l \in listeners : l.lib = library /\ l.filter = contract

\* C15 has happened: the provider was replaced (a read issued on chain 1 is
\* still in flight) and the only listener is the one on the provider of
\* chain 2.
C15_Witness ==
    /\ chainId = 2
    /\ \E k \in ValidAddrs : requests[k] = 1
    /\ listeners = {[lib |-> 2, filter |-> contract]}

\* C16: in every reachable state with the router ready on a valid wallet
\* address, the binding used by the write calls, and by every registered
\* Submission listener, is the one of that address.
C16_BindingFollowsAddress ==
    (isReady /\ IsAddress(address))
    => /\ contract = address
       /\ \A l \in listeners : l.filter = address

\* C17: no step within a session (chainId and wallet address unchanged)
\* removes an entry: the list does not get shorter and every id in it before
\* the step is in it after the step, whichever of count resolution,
\* Submission event, updateTransactions, submit, confirm or revoke the step is.
C17_NeverDeleted ==
    [][Session' = Session
       => /\ Len(transactions') >= Len(transactions)
          /\ \A i \in 1..Len(transactions) :
                \E j \in 1..Len(transactions') :
                   transactions'[j].id = transactions[i].id]_vars

\* C17 has happened: the list has grown by a prepend after its
\* materialization, an entry has had details attached, a write call has
\* returned its receipt, and every id from 0 is still there.
C17_Witness ==
    /\ Len(transactions) = 3
    /\ transactions[1].id = 2
    /\ \E i \in 1..3 : transactions[i].data # Absent
    /\ \A id \in 0..2 : \E i \in 1..3 : transactions[i].id = id
    /\ call.result = "receipt"

\* C18: in every reachable state the ids of the list are exactly
\* 0 .. length-1, arranged as a strictly descending run length-1, ..., k of
\* prepended ids followed by the ascending block 0, ..., k-1 of the bulk
\* materialization, so that the entry added last, if any was prepended, is
\* at index 0.
C18_ListShape ==
    LET n == Len(transactions)
    IN  /\ {transactions[i].id : i \in 1..n} = 0..(n - 1)
        /\ \E k \in 0..n :
              /\ \A i \in 1..(n - k) : transactions[i].id = n - i
              /\ \A i \in (n - k + 1)..n : transactions[i].id = i - (n - k) - 1

\* C18 has happened: a block of two was materialized and one id was
\* prepended to it.
C18_Witness ==
    /\ Ids(transactions) = <<2, 0, 1>>
    /\ call.op = "none"

\* C19: an addNewTx call whose method names no function entry of the
\* destination ABI ends rejected in the step that makes it, and never is at
\* the submitTransaction call or at the receipt wait.
C19_MethodNotFoundFailsFast ==
    [][/\ AddNewTx(FALSE)
          => /\ call'.pc = "done"
             /\ call'.result = "rejected"
             /\ call'.cause = "method"
       /\ call.cause = "method" => call'.pc \notin {"write", "wait"}]_vars

\* C19 has happened: addNewTx failed on the method lookup although a binding
\* and a connected provider were there to take the write.
C19_Witness ==
    /\ call = Failed("addNewTx", "method")
    /\ contract # NoContract
    /\ library # 0

\* C20: a revalidation of the current key that resolves to the count the
\* render already holds leaves the list as it is; and a step adds entries
\* only if the count the render observes after it differs from the one it
\* observed before it (undefined while there is no key).
C20_SameCountNoChange ==
    [][/\ \A n \in GatewayCounts :
             (key # NoKey /\ transactionCount = n /\ FetchResolve(key, n))
             => transactions' = transactions
       /\ Len(transactions') > Len(transactions)
          => transactionCount' # transactionCount]_vars

\* C20 has happened: count 1 was materialized, the wallet then switched to
\* chain 2, and the revalidation that switch forced has settled on 1 again:
\* the list is still the one entry.
C20_Witness ==
    /\ chainId = 2
    /\ transactionCount = 1
    /\ ~isValidating
    /\ transactions = Materialize(1, address)
    /\ call.pc = "idle"

=============================================================================
